---- MODULE Spec2Model ----
(***************************************************************************)
(* A model of the Google Drive audio downloader (dl_src_gdrive):           *)
(*   utils/path_utils.py          sanitize_filename, ensure_directory      *)
(*   dl_gdrive_core/dl_src_gdrive.py   list / filter / download / delete   *)
(*   main.py                      the command line driver                  *)
(* Text is modelled as a sequence of one-character strings.                *)
(***************************************************************************)
EXTENDS Integers, Sequences, FiniteSets, TLC

\* ------------------------------------------------------------------ bounds
\* Stand-in for the 255 of path_utils.py line 116 (the length limit).
MaxNameLen == 13
\* Longest list handed to filter_audio_files.
MaxRecords == 3
\* Last second the wall clock reaches.
MaxClock == 10
\* Number of times the program is started.
MaxRuns == 2
\* Number of failures of the store and the file system in one behaviour.
MaxFaults == 1
\* Deepest directory path handed to ensure_directory.
MaxDepth == 2

\* ------------------------------------------------------------ text helpers
Rep(c, n) == [i \in 1..n |-> c]

Max(a, b) == IF a >= b THEN a ELSE b

Min(a, b) == IF a <= b THEN a ELSE b

\* Python's s[:n], negative n counting from the end.
PyPrefix(s, n) ==
    IF n >= 0 THEN SubSeq(s, 1, Min(n, Len(s)))
    ELSE SubSeq(s, 1, Max(0, Len(s) + n))

\* Python's s[i:] for a 0-based i >= 0.
PyFrom(s, i) == SubSeq(s, i + 1, Len(s))

\* Python's s.rfind(c): the 0-based index of the last c, -1 if none.
RECURSIVE RFindFrom(_, _, _)
RFindFrom(s, c, k) ==
    IF k = 0 THEN -1
    ELSE IF s[k] = c THEN k - 1
    ELSE RFindFrom(s, c, k - 1)

RFind(s, c) == RFindFrom(s, c, Len(s))

\* ------------------------------------------------ utils/path_utils.py
\* unsafe_chars = '<>:"/\\|?*'
UnsafeChars == {"<", ">", ":", "\"", "/", "\\", "|", "?", "*"}

\* The characters of strip(' .').
StripSet == {" ", "."}

\* for char in unsafe_chars: sanitized = sanitized.replace(char, '_')
ReplaceUnsafe(s) == [i \in 1..Len(s) |-> IF s[i] \in UnsafeChars THEN "_" ELSE s[i]]

RECURSIVE LStrip(_, _)
LStrip(s, cs) ==
    IF s # <<>> /\ s[1] \in cs THEN LStrip(Tail(s), cs) ELSE s

RECURSIVE RStrip(_, _)
RStrip(s, cs) ==
    IF s # <<>> /\ s[Len(s)] \in cs THEN RStrip(SubSeq(s, 1, Len(s) - 1), cs) ELSE s

\* str.strip(chars)
Strip(s, cs) == RStrip(LStrip(s, cs), cs)

UnnamedFile == <<"u", "n", "n", "a", "m", "e", "d", "_", "f", "i", "l", "e">>

\* genericpath._splitext with sep = '/', extsep = '.': the first index of the
\* name part that is not a dot, searched from filenameIndex up to dotIndex.
RECURSIVE HasNonDot(_, _, _)
HasNonDot(p, filenameIndex, dotIndex) ==
    IF filenameIndex >= dotIndex THEN FALSE
    ELSE IF p[filenameIndex + 1] # "." THEN TRUE
    ELSE HasNonDot(p, filenameIndex + 1, dotIndex)

\* os.path.splitext(p): <<root, ext>>.
SplitExt(p) ==
    LET sepIndex == RFind(p, "/")
        dotIndex == RFind(p, ".")
    IN  IF dotIndex > sepIndex /\ HasNonDot(p, sepIndex + 1, dotIndex)
        THEN <<PyPrefix(p, dotIndex), PyFrom(p, dotIndex)>>
        ELSE <<p, <<>>>>

\* if len(sanitized) > 255: ... (lines 116-122)
LimitLength(sanitized) ==
    IF Len(sanitized) > MaxNameLen
    THEN LET name == SplitExt(sanitized)[1]
             ext == SplitExt(sanitized)[2]
         IN  IF ext # <<>>
             THEN LET max_name_length == MaxNameLen - Len(ext)
                  IN  PyPrefix(name, max_name_length) \o ext
             ELSE PyPrefix(sanitized, MaxNameLen)
    ELSE sanitized

sanitize_filename(filename) ==
    LET replaced == ReplaceUnsafe(filename)
        stripped == Strip(replaced, StripSet)
        nonempty == IF stripped = <<>> THEN UnnamedFile ELSE stripped
    IN  LimitLength(nonempty)

\* ------------------------------------------------- pathlib (POSIX flavour)
UpperLetters == <<"A", "B", "C", "D", "E", "F", "G", "H", "I", "J", "K", "L", "M",
                  "N", "O", "P", "Q", "R", "S", "T", "U", "V", "W", "X", "Y", "Z">>

LowerLetters == <<"a", "b", "c", "d", "e", "f", "g", "h", "i", "j", "k", "l", "m",
                  "n", "o", "p", "q", "r", "s", "t", "u", "v", "w", "x", "y", "z">>

LowerChar(c) ==
    IF \E i \in 1..26 : UpperLetters[i] = c
    THEN LowerLetters[CHOOSE i \in 1..26 : UpperLetters[i] = c]
    ELSE c

\* str.lower()
Lower(s) == [i \in 1..Len(s) |-> LowerChar(s[i])]

\* PurePath.name: the last component of the path that is neither empty nor ".",
\* found by scanning the text from its end; "" when there is none.
RECURSIVE PathNameScan(_, _)
PathNameScan(s, end) ==
    IF end = 0 THEN <<>>
    ELSE LET sepIndex == RFindFrom(s, "/", end)
             part == SubSeq(s, sepIndex + 2, end)
         IN  IF part = <<>> \/ part = <<".">>
             THEN PathNameScan(s, Max(sepIndex, 0))
             ELSE part

PathName(s) == PathNameScan(s, Len(s))

\* Suffix without the 0 < i test (any last dot starts a suffix).
PathSuffixAnyDot(s) ==
    LET name == PathName(s)
        i == RFind(name, ".")
    IN  IF 0 <= i /\ i < Len(name) - 1 THEN PyFrom(name, i) ELSE <<>>

\* PurePath.suffix: i = name.rfind('.'); name[i:] if 0 < i < len(name) - 1 else ''
PathSuffix(s) ==
    LET name == PathName(s)
        i == RFind(name, ".")
    IN  IF 0 < i /\ i < Len(name) - 1 THEN PyFrom(name, i) ELSE <<>>

\* ---------------------------------------- config/dl_gdrive_config.py
\* GdriveConfig.allowed_extensions
allowed_extensions ==
    { <<".", "m", "p", "3">>, <<".", "m", "4", "a">>, <<".", "w", "a", "v">>,
      <<".", "o", "g", "g">>, <<".", "f", "l", "a", "c">>, <<".", "a", "a", "c">>,
      <<".", "w", "m", "a">> }

\* ------------------------- dl_gdrive_core/dl_src_gdrive.py: the filter
\* file.get('name', '')
GetName(file) == IF "name" \in DOMAIN file THEN file.name ELSE <<>>

\* The test of lines 296-299 for one record.
IsAudio(file) == Lower(PathSuffix(GetName(file))) \in allowed_extensions

\* The loop of lines 294-306: audio_files.append(file) for each accepted file.
RECURSIVE FilterLoop(_, _, _)
FilterLoop(files, k, audio_files) ==
    IF k > Len(files) THEN audio_files
    ELSE FilterLoop(files, k + 1,
                    IF IsAudio(files[k]) THEN Append(audio_files, files[k])
                    ELSE audio_files)

filter_audio_files(files) == FilterLoop(files, 1, <<>>)

\* ----------------------------------------------- the remote store (world)
Digits == <<"0", "1", "2", "3", "4", "5", "6", "7", "8", "9">>

Digit(n) == Digits[n + 1]

IsDigit(c) == \E n \in 0..9 : Digits[n + 1] = c

DigitValue(c) == CHOOSE n \in 0..9 : Digits[n + 1] = c

\* "2024-01-02T03:04:" : the store's timestamps lie within this minute.
IsoHead == <<"2", "0", "2", "4", "-", "0", "1", "-", "0", "2", "T", "0", "3", ":", "0", "4", ":">>

\* The RFC 3339 text the store gives for second t of that minute.
IsoTime(t) == IsoHead \o <<Digit(t \div 10), Digit(t % 10), "Z">>

NoTime == <<>>

BadTime == <<"n", "/", "a">>

f1 == <<"f", "1">>

f2 == <<"f", "2">>

f3 == <<"f", "3">>

f4 == <<"f", "4">>

FileIds == {f1, f2, f3, f4}

\* The files of the store: two audio files with the same name and the same
\* creation second, a text file, and an empty audio file with no timestamp.
\* size is the number of chunks next_chunk needs to copy the content.
StoreFile(id) ==
    CASE id = f1 -> [name |-> <<"s", ".", "m", "p", "3">>, createdTime |-> IsoTime(5), size |-> 2]
      [] id = f2 -> [name |-> <<"s", ".", "m", "p", "3">>, createdTime |-> IsoTime(5), size |-> 1]
      [] id = f3 -> [name |-> <<"n", ".", "t", "x", "t">>, createdTime |-> IsoTime(7), size |-> 1]
      [] id = f4 -> [name |-> <<"e", ".", "M", "4", "A">>, createdTime |-> NoTime, size |-> 0]

\* CONFIG.gdrive.search_folders as configured: the root and one folder.
search_folders == <<"root", "fA">>

\* The children of each folder, in the order the store answers; f1 has two parents.
FolderChildren(folder_id) ==
    CASE folder_id = "root" -> <<f1, f2, f3>>
      [] folder_id = "fA" -> <<f1, f4>>

\* A record of files().list: fields id, name, createdTime (absent when the
\* store has none).
ListedRecord(id) ==
    IF StoreFile(id).createdTime = NoTime
    THEN [id |-> id, name |-> StoreFile(id).name]
    ELSE [id |-> id, name |-> StoreFile(id).name, createdTime |-> StoreFile(id).createdTime]

\* --------------------------------------------------------------- the state
VARIABLES
    fnPc, fnIn, fnOut,      \* a call of one pure function: position, argument, result
    pc,                     \* position of the process in main / download_all / download_file
    run,                    \* number of the process run
    service,                \* self.service is set (authenticate succeeded)
    delete_from_src,        \* CONFIG.gdrive.delete_from_src of dl_gdrive_config
    delete_from_gdrive,     \* args.delete_from_gdrive of main
    app_delete_from_src,    \* CONFIG.gdrive.delete_from_src of app_config, main's CONFIG
    remote,                 \* ids of the files present in the store
    dirs,                   \* directories under download_dir
    files,                  \* regular files under download_dir: path -> [size, id]
    clock,                  \* wall clock, seconds within the modelled minute
    faults,                 \* failures of the store and the file system so far
    folder_i,               \* list_files_in_folders: index of the next folder
    queries,                \* for each folder queried so far: the query succeeded
    all_files,              \* list_files_in_folders: all_files
    audio_files,            \* download_all_audio_files: audio_files
    file_i,                 \* download_all_audio_files: index of the record in hand
    successful_downloads,   \* download_all_audio_files: successful_downloads
    formatted_date,         \* download_file: formatted_date
    meta_bound,             \* download_file: file_metadata is bound
    result,                 \* download_file: the value returned ("none" while running)
    outcome,                \* the spec's name of the result: Success, Skipped, Failed
    callLog,                \* the store and file system events of the call in hand
    outcomes,               \* this run: outcome of each finished transfer
    dests,                  \* this run: destination of each finished transfer
    okFiles,                \* path -> size of every transfer that returned Success
    failedIds,              \* ids whose transfer returned Failed in an earlier run
    interrupted,            \* ids whose stream copy was cut by a process interruption
    retval,                 \* what download_all_audio_files returned
    exit_code               \* what main returned

pureVars == <<fnPc, fnIn, fnOut>>

listVars == <<folder_i, queries, all_files>>

loopVars == <<audio_files, file_i, successful_downloads>>

callVars == <<formatted_date, meta_bound, result, outcome, callLog>>

histVars == <<outcomes, dests, okFiles, failedIds, interrupted>>

endVars == <<retval, exit_code>>

cfgVars == <<delete_from_src, delete_from_gdrive, app_delete_from_src>>

procVars == <<pc, run, service, cfgVars, remote, dirs, files, clock, faults,
              listVars, loopVars, callVars, histVars, endVars>>

vars == <<pureVars, procVars>>

\* ----------------------- dl_gdrive_core/dl_src_gdrive.py: download_file
\* "2024-01-02_0304" : strftime('%Y-%m-%d_%H%M') of the modelled minute.
DateHead == <<"2", "0", "2", "4", "-", "0", "1", "-", "0", "2", "_", "0", "3", "0", "4">>

\* dt.strftime('%Y-%m-%d_%H%M%S') for second t of the modelled minute.
FormatDate(t) == DateHead \o <<Digit(t \div 10), Digit(t % 10)>>

\* created_time.replace('Z', '+00:00')
RECURSIVE ReplaceZ(_)
ReplaceZ(s) ==
    IF s = <<>> THEN <<>>
    ELSE (IF s[1] = "Z" THEN <<"+", "0", "0", ":", "0", "0">> ELSE <<s[1]>>)
         \o ReplaceZ(Tail(s))

\* datetime.fromisoformat on a text of the modelled minute: the second, or -1
\* where it raises ValueError.
FromIsoFormat(s) ==
    IF /\ Len(s) = 25
       /\ SubSeq(s, 1, 17) = IsoHead
       /\ IsDigit(s[18]) /\ IsDigit(s[19]) /\ DigitValue(s[18]) <= 5
       /\ SubSeq(s, 20, 25) = <<"+", "0", "0", ":", "0", "0">>
    THEN 10 * DigitValue(s[18]) + DigitValue(s[19])
    ELSE -1

\* What files().get(fileId=...).execute() can do for an id: raise, or answer
\* with or without a createdTime (no fields are asked for), or with one that
\* does not parse.  A file that is gone from the store gives an error.
MetaResponses(id, present) ==
    IF id \notin present THEN {[status |-> "raise"]}
    ELSE {[status |-> "raise"], [status |-> "ok"],
          [status |-> "ok", createdTime |-> BadTime]}
         \cup (IF StoreFile(id).createdTime = NoTime THEN {}
               ELSE {[status |-> "ok", createdTime |-> StoreFile(id).createdTime]})

\* Lines 348-368: the bucket from the metadata answer, or from the clock.
FormattedDate(resp, now) ==
    IF resp.status = "raise" THEN FormatDate(now)
    ELSE LET created_time ==
                 IF "createdTime" \in DOMAIN resp THEN resp.createdTime ELSE <<>>
         IN  IF created_time # <<>>
             THEN LET dt == FromIsoFormat(ReplaceZ(created_time))
                  IN  IF dt >= 0 THEN FormatDate(dt) ELSE FormatDate(now)
             ELSE FormatDate(now)

\* datetime.now() is read: lines 361 and 367, and 367 after line 355 raised.
ReadsClock(resp) == FormattedDate(resp, clock) # FormattedDate(resp, clock + 1)

\* The directory name without the id.
DirNameDateOnly(date, fid) == date

\* Line 371: f"{formatted_date}_{file_id}" under download_dir.
DirName(date, fid) == date \o <<"_">> \o fid

\* Line 372: date_prefixed_dir / safe_filename, relative to download_dir.
FilePath(dir, safe_filename) == dir \o <<"/">> \o safe_filename

file_id == audio_files[file_i].id

file_name == audio_files[file_i].name

date_prefixed_dir == DirName(formatted_date, file_id)

file_path == FilePath(date_prefixed_dir, sanitize_filename(file_name))

\* Path.exists() of a file path.
Exists(fs, path) == path \in DOMAIN fs

\* The check of line 375 left out.
NeverDownloaded(fs, path) == FALSE

\* A check that takes an empty file for a missing one.
AlreadyDownloadedNonEmpty(fs, path) == Exists(fs, path) /\ fs[path].size > 0

\* Line 375: if file_path.exists()
AlreadyDownloaded(fs, path) == Exists(fs, path)

\* Path.unlink()
Unlink(fs, path) == [q \in DOMAIN fs \ {path} |-> fs[q]]

\* The failed-verification branch that leaves the file in place.
KeepFile(fs, path) == fs

\* Lines 420-421: if file_path.exists(): file_path.unlink()
RemoveIfExists(fs, path) == IF Exists(fs, path) THEN Unlink(fs, path) ELSE fs

\* Verification by existence alone.
VerifiedExistsOnly(fs, path) == Exists(fs, path)

\* Line 405: file_path.exists() and file_path.stat().st_size > 0
Verified(fs, path) == Exists(fs, path) /\ fs[path].size > 0

\* utils/path_utils.py ensure_directory, on the set of directories.
ensure_directory(ds, directory_path) ==
    IF directory_path \notin ds THEN ds \cup {directory_path} ELSE ds

\* The ways a call to the store or the file system can end: it fails only
\* while the budget of failures lasts.
Outcomes == IF faults < MaxFaults THEN BOOLEAN ELSE {TRUE}

Charge(ok) == faults' = IF ok THEN faults ELSE faults + 1

\* download_file returns: the result, its name in the spec, the event logged.
Returns(res, out, log) ==
    /\ result' = res
    /\ outcome' = out
    /\ callLog' = log
    /\ pc' = "ret"

\* The exceptions the calls of download_file raise: HttpError from the store,
\* OSError from the file system, UnboundLocalError from line 386.
Exceptions == {"HttpError", "OSError", "UnboundLocalError"}

\* A handler for HttpError alone.
CaughtHttpOnly(e) == e = "HttpError"

\* Lines 424-429: except HttpError, then except Exception.
Caught(e) == e = "HttpError" \/ e \in Exceptions

\* An exception is raised inside the try of line 381: the handler returns
\* False, or the exception leaves download_file.
Raise(e, log) ==
    IF Caught(e)
    THEN Returns(FALSE, "Failed", log)
    ELSE /\ result' = "none"
         /\ outcome' = "raised"
         /\ callLog' = log
         /\ pc' = "ret"

\* ------------------------------------------------------------- main.py
\* Lines 93-113: the arguments are parsed; --delete-from-gdrive sets
\* delete_from_src of the CONFIG that main imported (line 39), which is the
\* object of config/app_config.py and not the one download_file reads.
ParseArgs ==
    /\ pc = "main"
    /\ app_delete_from_src' = IF delete_from_gdrive THEN TRUE ELSE app_delete_from_src
    /\ pc' = "auth"
    /\ UNCHANGED <<pureVars, run, service, delete_from_src, delete_from_gdrive, remote, dirs,
                   files, clock, faults, listVars, loopVars, callVars, histVars, endVars>>

\* main goes on whatever authenticate() returned.
IgnoreAuthenticate(ok) == "list"

\* Lines 121-123: if not downloader.authenticate(): return 1
AuthStep(ok) == IF ok THEN "list" ELSE "exit"

\* Lines 115-123: GoogleDriveDownloader() and authenticate(), which sets
\* self.service and returns True, or returns False (lines 154-193).
Authenticate ==
    /\ pc = "auth"
    /\ \E ok \in Outcomes :
         /\ Charge(ok)
         /\ service' = ok
         /\ pc' = AuthStep(ok)
         /\ exit_code' = IF pc' = "exit" THEN 1 ELSE exit_code
    /\ UNCHANGED <<pureVars, run, cfgVars, remote, dirs, files, clock, listVars,
                   loopVars, callVars, histVars, retval>>

\* --------------------- dl_src_gdrive.py: list_files_in_folders (195-262)
\* results.get('files', []) of a successful query: the children still in the store.
Response(folder_id, present) ==
    LET kept == SelectSeq(FolderChildren(folder_id), LAMBDA id : id \in present)
    IN  [k \in 1..Len(kept) |-> ListedRecord(kept[k])]

\* A listing that keeps only the last folder's files.
ReplaceFiles(all, listed) == listed

\* Line 252: all_files.extend(files)
ExtendFiles(all, listed) == all \o listed

\* A query of the listing in hand has raised.
QueryFailed == \E k \in 1..Len(queries) : ~queries[k]

\* Lines 222-224: without a service the listing returns [] at once.  Else one
\* turn of the loop of line 228: the query of one folder succeeds and its
\* files are appended, or it raises and the loop continues.  The failed
\* queries of one listing are charged as one failure.
ListFolder ==
    /\ pc = "list"
    /\ folder_i <= Len(search_folders)
    /\ IF ~service
       THEN /\ folder_i' = Len(search_folders) + 1
            /\ UNCHANGED <<faults, queries, all_files>>
       ELSE /\ \E ok \in IF QueryFailed THEN BOOLEAN ELSE Outcomes :
                 /\ faults' = IF ok \/ QueryFailed THEN faults ELSE faults + 1
                 /\ IF ok
                    THEN /\ all_files' = ExtendFiles(all_files,
                                                Response(search_folders[folder_i], remote))
                    ELSE UNCHANGED all_files
                 /\ queries' = Append(queries, ok)
            /\ folder_i' = folder_i + 1
    /\ UNCHANGED <<pureVars, pc, run, service, cfgVars, remote, dirs, files, clock,
                   loopVars, callVars, histVars, endVars>>

\* ------------------ dl_src_gdrive.py: download_all_audio_files (431-487)
\* Lines 460-473: the listing has returned; filter it and enter the loop, or
\* return (0, 0).
FilterListed ==
    /\ pc = "list"
    /\ folder_i > Len(search_folders)
    /\ IF all_files = <<>>
       THEN /\ retval' = <<0, 0>>
            /\ pc' = "report"
            /\ UNCHANGED loopVars
       ELSE /\ audio_files' = filter_audio_files(all_files)
            /\ IF audio_files' = <<>>
               THEN /\ retval' = <<0, 0>>
                    /\ pc' = "report"
                    /\ UNCHANGED <<file_i, successful_downloads>>
               ELSE /\ successful_downloads' = 0
                    /\ file_i' = 1
                    /\ pc' = "download"
                    /\ UNCHANGED retval
    /\ UNCHANGED <<pureVars, run, service, cfgVars, remote, dirs, files, clock,
                   faults, listVars, callVars, histVars, exit_code>>

\* download_file lines 340-377: sanitize, fetch the metadata, compute the
\* destination, and return True at once if the file is there.
BeginDownload ==
    /\ pc = "download"
    /\ service
    /\ \E resp \in MetaResponses(file_id, remote), now \in {clock, Min(clock + 1, MaxClock)} :
         /\ resp.status = "raise" /\ file_id \in remote => faults < MaxFaults
         /\ faults' = IF resp.status = "raise" /\ file_id \in remote
                      THEN faults + 1 ELSE faults
         /\ formatted_date' = FormattedDate(resp, now)
         /\ clock' = IF ReadsClock(resp) THEN now ELSE clock
         /\ now # clock => ReadsClock(resp)
         /\ meta_bound' = (resp.status = "ok")
    /\ LET path == FilePath(DirName(formatted_date', file_id), sanitize_filename(file_name))
       IN  IF AlreadyDownloaded(files, path)
           THEN Returns(TRUE, "Skipped", <<"meta">>)
           ELSE /\ pc' = "mkdir"
                /\ callLog' = <<"meta">>
                /\ UNCHANGED <<result, outcome>>
    /\ UNCHANGED <<pureVars, run, service, cfgVars, remote, dirs, files, listVars,
                   loopVars, histVars, endVars>>

\* Lines 381-386: ensure_directory, then int(file_metadata.get('size', 0)),
\* which raises when the metadata fetch had raised and left the name unbound.
EnsureDir ==
    /\ pc = "mkdir"
    /\ \E ok \in Outcomes :
         /\ Charge(ok)
         /\ IF ok
            THEN /\ dirs' = ensure_directory(dirs, date_prefixed_dir)
                 /\ IF meta_bound
                    THEN /\ pc' = "open"
                         /\ callLog' = Append(callLog, "mkdir")
                         /\ UNCHANGED <<result, outcome>>
                    ELSE Raise("UnboundLocalError", callLog \o <<"mkdir", "exception">>)
            ELSE /\ Raise("OSError", Append(callLog, "exception"))
                 /\ UNCHANGED dirs
    /\ UNCHANGED <<pureVars, run, service, cfgVars, remote, files, clock, listVars,
                   loopVars, formatted_date, meta_bound, histVars, endVars>>

\* Lines 392-394: get_media builds the request and open(file_path, 'wb')
\* creates the empty file, or raises.
OpenFile ==
    /\ pc = "open"
    /\ \E ok \in Outcomes :
         /\ Charge(ok)
         /\ IF ok
            THEN /\ files' = (file_path :> [size |-> 0, id |-> file_id]) @@ files
                 /\ pc' = "chunk"
                 /\ callLog' = Append(callLog, "open")
                 /\ UNCHANGED <<result, outcome>>
            ELSE /\ Raise("OSError", Append(callLog, "exception"))
                 /\ UNCHANGED files
    /\ UNCHANGED <<pureVars, run, service, cfgVars, remote, dirs, clock, listVars,
                   loopVars, formatted_date, meta_bound, histVars, endVars>>

\* Lines 398-402: one downloader.next_chunk(): it copies a chunk and reports
\* done with the last one, or raises (always, once the file is gone from the
\* store); the with block closes the file either way.
NextChunk ==
    /\ pc = "chunk"
    /\ \E ok \in IF file_id \in remote THEN Outcomes ELSE {FALSE} :
         /\ faults' = IF ok \/ file_id \notin remote THEN faults ELSE faults + 1
         /\ IF ok
            THEN /\ LET size == StoreFile(file_id).size
                        written == files[file_path].size
                    IN  IF size - written <= 1
                        THEN /\ files' = [files EXCEPT ![file_path].size = size]
                             /\ pc' = "verify"
                        ELSE /\ files' = [files EXCEPT ![file_path].size = written + 1]
                             /\ pc' = "chunk"
                 /\ callLog' = Append(callLog, "media")
                 /\ UNCHANGED <<result, outcome>>
            ELSE /\ \E e \in {"HttpError", "OSError"} :
                      Raise(e, callLog \o <<"media", "exception">>)
                 /\ UNCHANGED files
    /\ UNCHANGED <<pureVars, run, service, cfgVars, remote, dirs, clock, listVars,
                   loopVars, formatted_date, meta_bound, histVars, endVars>>

\* Lines 404-422: the verification; on failure the file is removed.
Verify ==
    /\ pc = "verify"
    /\ IF Verified(files, file_path)
       THEN /\ IF delete_from_src
               THEN /\ pc' = "delete"
                    /\ callLog' = Append(callLog, "verified")
                    /\ UNCHANGED <<result, outcome>>
               ELSE Returns(TRUE, "Success", Append(callLog, "verified"))
            /\ UNCHANGED files
       ELSE /\ files' = RemoveIfExists(files, file_path)
            /\ Returns(FALSE, "Failed", Append(callLog, "verify_failed"))
    /\ UNCHANGED <<pureVars, run, service, cfgVars, remote, dirs, clock, faults,
                   listVars, loopVars, formatted_date, meta_bound, histVars, endVars>>

\* A download that fails when its delete request fails.
AfterDeleteStrict(deleted) == deleted

\* Lines 411-417: whatever delete_file_from_gdrive returned, return True.
AfterDelete(deleted) == TRUE

\* Lines 409-417 and delete_file_from_gdrive (489-527): the delete request
\* removes the file from the store or fails; download_file returns True.
DeleteRemote ==
    /\ pc = "delete"
    /\ service
    /\ \E ok \in IF file_id \in remote THEN Outcomes ELSE {FALSE} :
         /\ faults' = IF ok \/ file_id \notin remote THEN faults ELSE faults + 1
         /\ remote' = IF ok THEN remote \ {file_id} ELSE remote
         /\ Returns(AfterDelete(ok), IF AfterDelete(ok) THEN "Success" ELSE "Failed",
                    Append(callLog, "delete"))
    /\ UNCHANGED <<pureVars, run, service, cfgVars, dirs, files, clock, listVars,
                   loopVars, formatted_date, meta_bound, histVars, endVars>>

\* The loop stops at the first failed download.
NextRecordStopOnFailure(k, ok) == IF ok THEN k + 1 ELSE Len(audio_files) + 1

\* A loop that takes a failed record again.
NextRecordRetry(k, ok) == IF ok THEN k + 1 ELSE k

\* A loop that takes every other record.
NextRecordSkip(k, ok) == k + 2

\* Line 475: the for loop goes on to the next record whatever the result.
NextRecord(k, ok) == k + 1

\* Every call is counted, whatever it returned.
CountAlways(n, ok) == n + 1

\* Lines 481-482: if self.download_file(...): successful_downloads += 1
CountResult(n, ok) == IF ok THEN n + 1 ELSE n

\* Lines 481-487: count the result, go on with the next record, and return
\* (successful_downloads, total_files) after the last.  An exception that
\* left download_file leaves the loop too and ends in main's handler (lines
\* 152-154), which returns 1.
Return ==
    /\ pc = "ret"
    /\ IF outcome = "raised"
       THEN /\ exit_code' = 1
            /\ pc' = "exit"
            /\ UNCHANGED <<loopVars, histVars, retval>>
       ELSE /\ successful_downloads' = CountResult(successful_downloads, result)
            /\ outcomes' = Append(outcomes, outcome)
            /\ dests' = Append(dests, [dir |-> date_prefixed_dir, path |-> file_path])
            /\ okFiles' = IF outcome = "Success"
                          THEN (file_path :> files[file_path].size) @@ okFiles
                          ELSE okFiles
            /\ file_i' = NextRecord(file_i, result)
            /\ IF file_i' > Len(audio_files)
               THEN /\ retval' = <<successful_downloads', Len(audio_files)>>
                    /\ pc' = "report"
               ELSE /\ pc' = "download"
                    /\ UNCHANGED retval
            /\ UNCHANGED <<audio_files, failedIds, interrupted, exit_code>>
    /\ formatted_date' = <<>>
    /\ meta_bound' = FALSE
    /\ result' = "none"
    /\ outcome' = "none"
    /\ callLog' = <<>>
    /\ UNCHANGED <<pureVars, run, service, cfgVars, remote, dirs, files, clock,
                   faults, listVars>>

\* An exit code of 0 for any batch with a download counted.
ExitCodeAnySuccess(successful, total) == IF successful > 0 THEN 0 ELSE 1

\* main.py line 147: return 0 if successful == total else 1
ExitCode(successful, total) == IF successful = total THEN 0 ELSE 1

\* main.py lines 127-147: the counts become the exit code.
Report ==
    /\ pc = "report"
    /\ exit_code' = ExitCode(retval[1], retval[2])
    /\ pc' = "exit"
    /\ UNCHANGED <<pureVars, run, service, cfgVars, remote, dirs, files, clock,
                   faults, listVars, loopVars, callVars, histVars, retval>>

\* The ids whose every transfer of the finished run returned Failed.
FailedInRun ==
    {audio_files[k].id : k \in {k \in 1..Len(outcomes) : outcomes[k] = "Failed"}}
    \ {audio_files[k].id : k \in {k \in 1..Len(outcomes) : outcomes[k] # "Failed"}}

\* The program is started again: a new process over the same store and the
\* same download directory, with the configuration as imported anew and, this
\* time, without --delete-from-gdrive.
StartAgain ==
    /\ pc = "exit"
    /\ run < MaxRuns
    /\ run' = run + 1
    /\ pc' = "main"
    /\ service' = FALSE
    /\ folder_i' = 1
    /\ queries' = <<>>
    /\ all_files' = <<>>
    /\ audio_files' = <<>>
    /\ file_i' = 0
    /\ successful_downloads' = 0
    /\ outcomes' = <<>>
    /\ dests' = <<>>
    /\ failedIds' = FailedInRun
    /\ retval' = <<>>
    /\ exit_code' = -1
    /\ app_delete_from_src' = TRUE
    /\ delete_from_gdrive' = FALSE
    /\ UNCHANGED <<pureVars, delete_from_src, remote, dirs, files, clock, faults, callVars,
                   okFiles, interrupted>>

\* The state of a process that has just been started.
ProcStart ==
    /\ pc = "main"
    /\ run = 1
    /\ service = FALSE
    /\ app_delete_from_src = TRUE
    /\ remote = FileIds
    /\ dirs = {}
    /\ files = <<>>
    /\ clock = 10
    /\ faults = 0
    /\ folder_i = 1
    /\ queries = <<>>
    /\ all_files = <<>>
    /\ audio_files = <<>>
    /\ file_i = 0
    /\ successful_downloads = 0
    /\ formatted_date = <<>>
    /\ meta_bound = FALSE
    /\ result = "none"
    /\ outcome = "none"
    /\ callLog = <<>>
    /\ outcomes = <<>>
    /\ dests = <<>>
    /\ okFiles = <<>>
    /\ failedIds = {}
    /\ interrupted = {}
    /\ retval = <<>>
    /\ exit_code = -1

\* The process variables while a pure function alone is exercised.
ProcIdle == ProcStart /\ delete_from_src = FALSE /\ delete_from_gdrive = FALSE

PureIdle == fnPc = "idle" /\ fnIn = <<>> /\ fnOut = <<>>

Init ==
    /\ PureIdle
    /\ ProcStart
    /\ delete_from_src \in BOOLEAN
    /\ delete_from_gdrive \in BOOLEAN

Next ==
    \/ ParseArgs
    \/ Authenticate
    \/ ListFolder
    \/ FilterListed
    \/ BeginDownload
    \/ EnsureDir
    \/ OpenFile
    \/ NextChunk
    \/ Verify
    \/ DeleteRemote
    \/ Return
    \/ Report
    \/ StartAgain

Spec == Init /\ [][Next]_vars

\* A step of the loop of download_all_audio_files: a call to the store or to
\* the file system returns or raises, next_chunk copies a chunk, and the
\* single flow of control goes on.
LoopStep ==
    \/ BeginDownload
    \/ EnsureDir
    \/ OpenFile
    \/ NextChunk
    \/ Verify
    \/ DeleteRemote
    \/ Return

\* The loop does not stop while it has a step to take.
FairSpec == Spec /\ WF_vars(LoopStep)

\* main.py lines 149-151: a KeyboardInterrupt that arrives while the loop of
\* lines 398-402 copies the stream is no Exception, so the handlers of lines
\* 424-429 let it pass; the with block of line 394 closes the file with the
\* bytes written so far, the batch is left, and main returns 1.
Interrupt ==
    /\ pc = "chunk"
    /\ faults < MaxFaults
    /\ faults' = faults + 1
    /\ interrupted' = interrupted \cup {file_id}
    /\ exit_code' = 1
    /\ pc' = "exit"
    /\ formatted_date' = <<>>
    /\ meta_bound' = FALSE
    /\ result' = "none"
    /\ outcome' = "none"
    /\ callLog' = <<>>
    /\ UNCHANGED <<pureVars, run, service, cfgVars, remote, dirs, files, clock, listVars,
                   loopVars, outcomes, dests, okFiles, failedIds, retval>>

NextInterrupt == Next \/ Interrupt

\* The program with interruptions of the stream copy.
SpecInterrupt == Init /\ [][NextInterrupt]_vars

\* ------------------------------------------------- properties of a run
InCall == pc \in {"mkdir", "open", "chunk", "verify", "delete", "ret"}

Logged(e) == \E k \in 1..Len(callLog) : callLog[k] = e

\* The regular files in a directory.
FilesIn(dir) ==
    {q \in DOMAIN files :
        Len(q) > Len(dir) + 1 /\ SubSeq(q, 1, Len(dir) + 1) = dir \o <<"/">>}

\* The batch has returned its counts to main.
BatchReturned == pc \in {"report", "exit"} /\ retval # <<>>

FailedCount == Cardinality({k \in 1..Len(outcomes) : outcomes[k] = "Failed"})

\* C1: a delete request is made only with delete_from_src set, and only after
\* the same call has opened the destination file, copied the content and seen
\* the file there with a size above 0; a call that ends Skipped or Failed
\* makes none; and a file is gone from the store only if its own transfer
\* wrote its file.
DeleteOnlyAfterVerifiedWrite ==
    /\ InCall =>
         /\ \A d \in 1..Len(callLog) : callLog[d] = "delete" =>
               /\ delete_from_src
               /\ \E o, v \in 1..(d - 1) :
                     o < v /\ callLog[o] = "open" /\ callLog[v] = "verified"
               /\ file_path \in DOMAIN files
               /\ files[file_path].size > 0
               /\ files[file_path].id = file_id
         /\ outcome \in {"Skipped", "Failed"} => ~Logged("delete")
    /\ \A id \in FileIds \ remote :
         \/ \E q \in DOMAIN okFiles :
               q \in DOMAIN files /\ files[q].id = id /\ files[q].size > 0
         \/ pc = "ret" /\ file_id = id /\ Logged("delete")

\* A delete request was made and took the file from the store.
DeleteWitness ==
    /\ pc = "ret"
    /\ Logged("delete")
    /\ file_id \notin remote
    /\ outcome = "Success"

\* A record has a transfer behind it that returned Success.
TransferredBefore(id) ==
    \E q \in DOMAIN okFiles : q \in DOMAIN files /\ files[q].id = id

\* C2 as claimed: a second call for a record returns Skipped, makes no
\* request to the store at all, and leaves one file of the record on disk.
SecondCallSkipsWithoutAnyRead ==
    pc = "ret" /\ TransferredBefore(file_id) =>
        /\ outcome = "Skipped"
        /\ callLog = <<>>
        /\ Cardinality({q \in DOMAIN files : files[q].id = file_id}) = 1

\* C2 amended: a call whose destination is that of an earlier call that
\* returned Success returns True (Skipped); its one request to the store is
\* the metadata fetch; the file is as the first call left it and is the one
\* file of its directory.
SecondCallSkipsWithoutMedia ==
    pc = "ret" /\ file_path \in DOMAIN okFiles =>
        /\ outcome = "Skipped"
        /\ result = TRUE
        /\ callLog = <<"meta">>
        /\ file_path \in DOMAIN files
        /\ files[file_path].size = okFiles[file_path]
        /\ FilesIn(date_prefixed_dir) = {file_path}

\* A later run of the program skips a file that an earlier run wrote.
SecondCallWitness ==
    /\ pc = "ret"
    /\ run = 2
    /\ file_path \in DOMAIN okFiles
    /\ outcome = "Skipped"

\* C3: the batch returns only after every filtered record had its transfer,
\* it returns (N - failed, N), and the file of every transfer that returned
\* Success is on disk, whatever happened to the other records.
FailureContained ==
    BatchReturned =>
        /\ Len(outcomes) = Len(audio_files)
        /\ retval = <<Len(audio_files) - FailedCount, Len(audio_files)>>
        /\ \A k \in 1..Len(outcomes) : outcomes[k] = "Success" =>
              /\ dests[k].path \in DOMAIN files
              /\ files[dests[k].path].size > 0
              /\ files[dests[k].path].id = audio_files[k].id

\* The second of four records failed by an exception, the first and the
\* third did not, and the batch returned (2, 4).
FailureContainedWitness ==
    /\ BatchReturned
    /\ Len(outcomes) = 4
    /\ outcomes[1] = "Success"
    /\ outcomes[2] = "Failed"
    /\ outcomes[3] = "Skipped"
    /\ retval = <<2, 4>>
    /\ faults = 1

\* The copy of the stream has ended without an exception.
StreamCompleted == Logged("media") /\ ~Logged("exception")

\* C4: when the copy completes and the file written is missing or empty,
\* the call returns False, the file is gone, and no delete request was made,
\* also with delete_from_src set.
VerificationGate ==
    pc = "ret" /\ StreamCompleted
       /\ (file_path \notin DOMAIN files \/ files[file_path].size = 0
           \/ StoreFile(file_id).size = 0) =>
        /\ result = FALSE
        /\ outcome = "Failed"
        /\ file_path \notin DOMAIN files
        /\ ~Logged("delete")
        /\ file_id \in remote

\* An empty file was copied with delete_from_src set.
VerificationGateWitness ==
    /\ pc = "ret"
    /\ StreamCompleted
    /\ StoreFile(file_id).size = 0
    /\ delete_from_src
    /\ date_prefixed_dir \in dirs

\* C5 as claimed: after a call that returned Failed there is no file at the
\* destination.
FailedLeavesNoFile ==
    pc = "ret" /\ outcome = "Failed" => file_path \notin DOMAIN files

\* C6 as claimed: a record whose transfers all failed in the run before is
\* not reported Skipped unless a transfer to that destination has completed.
FailedIsTransferredAgain ==
    pc = "ret" /\ run > 1 /\ file_id \in failedIds /\ outcome = "Skipped" =>
        file_path \in DOMAIN okFiles

\* C7: two records with distinct ids have distinct destination directories,
\* and when both transfers succeed both files are there, each written by
\* its own record.
DistinctIdsDistinctDirs ==
    \A j, k \in 1..Len(dests) :
        audio_files[j].id # audio_files[k].id =>
            /\ dests[j].dir # dests[k].dir
            /\ outcomes[j] = "Success" /\ outcomes[k] = "Success" =>
                  /\ dests[j].path \in DOMAIN files
                  /\ dests[k].path \in DOMAIN files
                  /\ files[dests[j].path].id = audio_files[j].id
                  /\ files[dests[k].path].id = audio_files[k].id

\* Two records of the same name and creation time, with distinct ids, were
\* both transferred into the bucket of that creation time.
DistinctDirsWitness ==
    /\ Len(dests) >= 2
    /\ audio_files[1].id # audio_files[2].id
    /\ audio_files[1].name = audio_files[2].name
    /\ audio_files[1].createdTime = audio_files[2].createdTime
    /\ outcomes[1] = "Success" /\ outcomes[2] = "Success"
    /\ dests[1].dir = FormatDate(5) \o <<"_">> \o audio_files[1].id
    /\ dests[2].dir = FormatDate(5) \o <<"_">> \o audio_files[2].id

\* The files of the first n folders whose query succeeded, in folder order.
RECURSIVE ListedUpTo(_)
ListedUpTo(n) ==
    IF n = 0 THEN <<>>
    ELSE ListedUpTo(n - 1)
         \o (IF queries[n] THEN Response(search_folders[n], remote) ELSE <<>>)

\* C10: all_files is the concatenation, in folder order, of the answers of
\* the folders whose query succeeded; a failed query adds nothing, and every
\* configured folder has been queried when the listing returns.
ListingConcatenates ==
    /\ pc = "list" =>
         /\ Len(queries) = folder_i - 1
         /\ all_files = ListedUpTo(Len(queries))
    /\ pc \in {"download", "report"} => Len(queries) = Len(search_folders)

\* The first folder's query failed and the second folder was still listed.
ListingWitness ==
    /\ pc = "list"
    /\ queries = <<FALSE, TRUE>>
    /\ all_files = <<ListedRecord(f1), ListedRecord(f4)>>

\* The transfers of the finished batch that returned Success or Skipped.
NotFailedCount ==
    Cardinality({k \in 1..Len(outcomes) : outcomes[k] \in {"Success", "Skipped"}})

\* C11: download_all_audio_files returns (0, 0) when the listing is empty or
\* no listed record passes the filter; otherwise it returns the number of
\* transfers that returned Success or Skipped, one transfer for each filtered
\* record, and the number of the filtered records; the first count is between
\* 0 and the second.
BatchCounts ==
    pc = "report" =>
        LET audio == filter_audio_files(all_files)
        IN  /\ IF all_files = <<>> \/ audio = <<>>
               THEN retval = <<0, 0>> /\ outcomes = <<>>
               ELSE /\ Len(outcomes) = Len(audio)
                    /\ retval = <<NotFailedCount, Len(audio)>>
            /\ 0 <= retval[1]
            /\ retval[1] <= retval[2]

\* A batch returned with some of its transfers failed and some not.
BatchCountsWitness ==
    /\ BatchReturned
    /\ 0 < retval[1]
    /\ retval[1] < retval[2]
    /\ \E k \in 1..Len(outcomes) : outcomes[k] = "Skipped"

\* C12: a process whose authentication succeeded and whose batch returned
\* its counts to main exits with 0 exactly when the two counts are equal,
\* the batch of no records included, and with 1 otherwise.
ExitCodeIffAllCounted ==
    pc = "exit" /\ service /\ retval # <<>> =>
        /\ exit_code \in {0, 1}
        /\ exit_code = 0 <=> retval[1] = retval[2]
        /\ retval[2] = 0 => exit_code = 0

\* The second process exited with 1 after a batch with a failed transfer.
ExitCodeWitness ==
    /\ pc = "exit"
    /\ service
    /\ run = 2
    /\ retval # <<>>
    /\ retval[1] < retval[2]
    /\ exit_code = 1

\* C13: while authenticate() has not returned True in the process, no list
\* query has been made and no metadata, media or delete request (every one of
\* which is logged in its call) has been made or finished; and a process whose
\* authenticate() returned False exits with a code other than 0.
AuthBeforeTraffic ==
    ~service =>
        /\ queries = <<>>
        /\ all_files = <<>>
        /\ callLog = <<>>
        /\ outcomes = <<>>
        /\ ~InCall
        /\ pc = "exit" => exit_code # 0 /\ retval = <<>>

\* authenticate() returned False in the second process, after a first one
\* that wrote a file: main has returned 1.
AuthFailureWitness ==
    /\ pc = "exit"
    /\ ~service
    /\ run = 2
    /\ files # <<>>
    /\ exit_code = 1

\* C14 as claimed: in a process started with --delete-from-gdrive every
\* transfer that passed the verification makes a delete request for its
\* record, whatever delete_from_src was configured.
FlagForcesDelete ==
    delete_from_gdrive /\ pc = "ret" /\ Logged("verified") => Logged("delete")

\* C15: when the delete request of a verified transfer has failed (the file
\* is still in the store), download_file returns True (Success), the file
\* written stays on disk with its content, and the loop counts the record.
BestEffortDelete ==
    [][pc = "ret" /\ Logged("delete") /\ file_id \in remote =>
         /\ result = TRUE
         /\ outcome = "Success"
         /\ file_path \in DOMAIN files
         /\ files[file_path].size = StoreFile(file_id).size
         /\ files' = files
         /\ successful_downloads' = successful_downloads + 1]_vars

\* A delete request failed and the call returned.
BestEffortDeleteWitness ==
    /\ pc = "ret"
    /\ Logged("delete")
    /\ file_id \in remote
    /\ result = TRUE

\* The metadata fetch of the call in hand raised.
MetadataRaised == InCall /\ ~meta_bound

\* C16 as claimed: a call of download_file in which the metadata fetch, the
\* directory creation, the local write or the media stream raised returns
\* False (Failed), and no exception leaves download_file or the batch.
ExceptionsBecomeFailed ==
    /\ pc = "ret" /\ (MetadataRaised \/ Logged("exception")) =>
          result = FALSE /\ outcome = "Failed"
    /\ pc = "ret" => outcome # "raised"
    /\ pc = "exit" /\ service => retval # <<>>

\* C16 amended: no exception leaves download_file or the batch; a call in
\* which the directory creation, the local write or the media stream raised
\* returns False (Failed); a call whose metadata fetch raised goes on with
\* the clock as the bucket and returns True (Skipped) when the file of that
\* bucket is there, and False (Failed) otherwise.
ExceptionsNeverPropagate ==
    /\ pc = "ret" => outcome \in {"Success", "Skipped", "Failed"}
    /\ pc = "ret" /\ Logged("exception") => result = FALSE /\ outcome = "Failed"
    /\ pc = "ret" /\ MetadataRaised =>
          \/ /\ outcome = "Skipped"
             /\ result = TRUE
             /\ callLog = <<"meta">>
             /\ file_path \in DOMAIN files
          \/ /\ outcome = "Failed"
             /\ result = FALSE
             /\ Logged("exception")
    /\ pc = "exit" /\ service => retval # <<>>

\* The metadata fetch raised, the directory was made, and line 386 raised on
\* the unbound file_metadata: the call returned False.
ExceptionsWitness ==
    /\ pc = "ret"
    /\ MetadataRaised
    /\ callLog = <<"meta", "mkdir", "exception">>
    /\ result = FALSE

\* C17: a call of download_file that finds a file at its destination, of
\* any size, returns True (Skipped) from the existence check: its one event
\* is the metadata fetch, and in the call and in its return to the loop the
\* files with their sizes, the directories and the store stay as they were.
SkipLeavesAllUnchanged ==
    [][/\ pc = "download" /\ pc' # "download" /\ Exists(files, file_path') =>
            /\ pc' = "ret"
            /\ outcome' = "Skipped"
            /\ result' = TRUE
            /\ callLog' = <<"meta">>
            /\ files' = files
            /\ dirs' = dirs
            /\ remote' = remote
       /\ pc = "ret" /\ outcome = "Skipped" =>
            /\ callLog = <<"meta">>
            /\ files' = files
            /\ dirs' = dirs
            /\ remote' = remote]_vars

\* A call found an empty file at its destination and returned Skipped.
SkipWitness ==
    /\ pc = "ret"
    /\ outcome = "Skipped"
    /\ file_path \in DOMAIN files
    /\ files[file_path].size = 0
    /\ StoreFile(file_id).size > 0

\* The bucket of the listed record in hand: its createdTime parsed and
\* formatted, or <<>> where it is absent or does not parse.
ListedBucket ==
    LET record == audio_files[file_i]
        dt == IF "createdTime" \in DOMAIN record
              THEN FromIsoFormat(ReplaceZ(record.createdTime)) ELSE -1
    IN  IF dt >= 0 THEN FormatDate(dt) ELSE <<>>

\* C18 as claimed: a transfer of a record listed with a createdTime that
\* parses returns Success with the file written in the directory named by
\* that time and the id; the clock names the directory only for a record
\* listed without such a time.
BucketFromListedRecord ==
    pc = "ret" /\ outcome = "Success" /\ ListedBucket # <<>> =>
        /\ date_prefixed_dir = DirName(ListedBucket, file_id)
        /\ FilePath(DirName(ListedBucket, file_id), sanitize_filename(file_name))
              \in DOMAIN files

\* The id at the end of a directory name.
DirId(dir) == SubSeq(dir, Len(dir) - Len(f1) + 1, Len(dir))

\* The loop of download_all_audio_files is running.
InLoop == pc = "download" \/ InCall

\* C19: while the loop runs, the listing has made its one query for each
\* configured folder and makes no more, and the transfers finished so far
\* are those of the records before the one in hand, one each and in order;
\* a transfer starts with the records being the filtered listing in listing
\* order and with nothing of the transfer before it pending; when the batch
\* returns every record has had its one transfer.
SequentialTransfers ==
    /\ InLoop =>
         /\ Len(queries) = Len(search_folders)
         /\ folder_i = Len(search_folders) + 1
         /\ file_i \in 1..Len(audio_files)
         /\ Len(outcomes) = file_i - 1
         /\ Len(dests) = file_i - 1
    /\ pc = "download" =>
         /\ audio_files = filter_audio_files(all_files)
         /\ \A k \in 1..Len(dests) : DirId(dests[k].dir) = audio_files[k].id
         /\ \A k \in 1..Len(outcomes) : outcomes[k] \in {"Success", "Skipped", "Failed"}
         /\ result = "none" /\ outcome = "none" /\ callLog = <<>>
    /\ pc = "report" /\ audio_files # <<>> =>
         /\ Len(outcomes) = Len(audio_files)
         /\ Len(queries) = Len(search_folders)
         /\ \A k \in 1..Len(dests) : DirId(dests[k].dir) = audio_files[k].id
         /\ \A k \in 1..Len(outcomes) : outcomes[k] \in {"Success", "Skipped", "Failed"}

\* The transfer of the last of four records is returning after the three
\* before it have finished, one of them with its file deleted from the store.
SequentialWitness ==
    /\ pc = "ret"
    /\ Len(audio_files) = 4
    /\ file_i = 4
    /\ Len(outcomes) = 3
    /\ \E k \in 1..3 : outcomes[k] = "Success" /\ audio_files[k].id \notin remote

\* The states of the spec's machine for the record in hand: Pending before
\* the call, Downloading from the directory creation to the verification,
\* Verified with the delete request ahead, and the three terminal states.
RecordState ==
    CASE pc = "download" -> "Pending"
      [] pc \in {"mkdir", "open", "chunk", "verify"} -> "Downloading"
      [] pc = "delete" -> "Verified"
      [] pc = "ret" -> outcome
      [] OTHER -> "none"

\* The steps of the machine.
RecordSteps ==
    {<<"Pending", "Skipped">>, <<"Pending", "Downloading">>,
     <<"Downloading", "Downloading">>, <<"Downloading", "Verified">>,
     <<"Downloading", "Success">>, <<"Downloading", "Failed">>,
     <<"Verified", "Success">>}

InterruptedIsTransferredAgain ==
    /\ pc = "exit" /\ service /\ retval = <<>> => exit_code = 1
    /\ pc = "ret" /\ file_id \in interrupted => outcome # "Skipped"

\* C25 as claimed: a call of download_file whose metadata fetch raised goes
\* on with the download: once its directory is made (ensure_directory did
\* not raise), its next step is to open the destination file.
MetadataFailureGoesOn ==
    [][pc = "mkdir" /\ ~meta_bound /\ callLog' # Append(callLog, "exception")
          => pc' = "open"]_vars

\* The delete request for the record failed: with delete_from_src set, a
\* transfer of it returned Success and the file is still in the store.
DeleteFailedBefore(id) == delete_from_src /\ id \in remote /\ TransferredBefore(id)

\* C26: a delete request is made only by a call that opened and wrote its
\* destination file.  With delete_from_src set, a later call for a record
\* whose delete request failed, computing from an unchanged createdTime the
\* destination that was written, returns True (Skipped) after the metadata
\* fetch alone: it makes no delete request, the record stays in the store,
\* and the loop counts the call as successful.
NoSecondDeleteAttempt ==
    [][/\ pc' = "delete" => Logged("open")' /\ Logged("verified")'
       /\ pc = "download" /\ DeleteFailedBefore(file_id) /\ file_path' \in DOMAIN okFiles =>
             /\ pc' = "ret"
             /\ outcome' = "Skipped"
             /\ result' = TRUE
             /\ callLog' = <<"meta">>
             /\ remote' = remote
       /\ pc = "ret" /\ outcome = "Skipped" /\ DeleteFailedBefore(file_id) =>
             /\ successful_downloads' = successful_downloads + 1
             /\ file_id \in remote']_vars

\* In a later run a record whose delete request failed has been skipped.
NoSecondDeleteWitness ==
    /\ run > 1
    /\ pc = "ret"
    /\ outcome = "Skipped"
    /\ DeleteFailedBefore(file_id)
    /\ file_path \in DOMAIN okFiles

\* Every folder was queried and every query raised.
AllQueriesFailed ==
    Len(queries) = Len(search_folders) /\ \A k \in 1..Len(queries) : ~queries[k]

\* C27: when the query of every configured folder fails the listing is
\* empty, and for an empty listing, whatever made it empty,
\* download_all_audio_files returns (0, 0) and main exits with code 0.
ListingFailureLooksEmpty ==
    /\ BatchReturned /\ AllQueriesFailed => all_files = <<>>
    /\ BatchReturned /\ all_files = <<>> =>
          /\ retval = <<0, 0>>
          /\ pc = "exit" => exit_code = 0

\* Both queries failed and the process has exited with code 0.
ListingFailureWitness ==
    /\ pc = "exit"
    /\ AllQueriesFailed
    /\ retval = <<0, 0>>
    /\ exit_code = 0

\* An earlier transfer of this run, for the id of the record in hand,
\* returned Success with the directory named by the listed createdTime.
FirstTransferSucceeded ==
    /\ ListedBucket # <<>>
    /\ \E j \in 1..Len(outcomes) :
          /\ audio_files[j].id = file_id
          /\ outcomes[j] = "Success"
          /\ dests[j].dir = DirName(ListedBucket, file_id)

\* The store answers the metadata fetch for a file it holds, with the
\* createdTime it listed.
StoreAnswers == file_id \in remote => meta_bound /\ formatted_date = ListedBucket

\* C28 as claimed: when an id is listed twice in a run and its first
\* transfer returned Success, the second transfer returns True (Skipped)
\* without a chunk copied, with delete_from_src set as without it, and the
\* batch counts both.
DuplicateIsSkipped ==
    /\ pc = "ret" /\ FirstTransferSucceeded /\ StoreAnswers =>
          /\ outcome = "Skipped"
          /\ result = TRUE
          /\ ~Logged("media")
    /\ pc = "ret" /\ FirstTransferSucceeded /\ StoreAnswers /\ file_i = Len(audio_files)
          /\ (\A j \in 1..Len(outcomes) : outcomes[j] # "Failed") =>
          CountResult(successful_downloads, result) = Len(audio_files)

\* ------------------------------------------- inputs of sanitize_filename
EdgeChars == UnsafeChars \cup {"a", ".", " ", "\t"}

MidChars == {"a", ".", " ", "/"}

UpTo1(cs) == {<<>>} \cup {<<c>> : c \in cs}

RunLens == {0, 1, 2} \cup ((MaxNameLen - 2)..(MaxNameLen + 2))

SanitizeInputs ==
    {x \o Rep("a", n) \o y \o Rep("b", m) \o z :
        x \in UpTo1(EdgeChars), n \in RunLens, y \in UpTo1(MidChars),
        m \in RunLens, z \in UpTo1(EdgeChars)}

InitSanitize ==
    /\ fnPc = "call"
    /\ fnIn \in SanitizeInputs
    /\ fnOut = <<>>
    /\ ProcIdle

ApplySanitize ==
    /\ fnPc = "call"
    /\ fnOut' = sanitize_filename(fnIn)
    /\ fnPc' = "returned"
    /\ UNCHANGED <<fnIn, procVars>>

NextSanitize == ApplySanitize

SpecSanitize == InitSanitize /\ [][NextSanitize]_vars

\* C8: for every input, sanitize_filename returns a non-empty string of at
\* most MaxNameLen characters that holds none of the unsafe characters.
SanitizeTotality ==
    fnPc = "returned" =>
        /\ fnOut # <<>>
        /\ Len(fnOut) <= MaxNameLen
        /\ \A i \in 1..Len(fnOut) : fnOut[i] \notin UnsafeChars

\* ------------------------------------------ inputs of filter_audio_files
NamePrefixes == { <<>>, <<"a">>, <<"x", "/">> }

NameEndings ==
    { <<".", "m", "p", "3">>, <<".", "M", "P", "3">>, <<".", "m", "4", "a">>,
      <<".", "t", "x", "t">>, <<".", "m", "p", "3", "/">>, <<".">>, <<"m", "p", "3">> }

SampleNames == {p \o e : p \in NamePrefixes, e \in NameEndings}

SampleRecords ==
    {[id |-> "f", name |-> n] : n \in SampleNames} \cup {[id |-> "f"]}

SeqsUpTo(S, n) == UNION {[1..k -> S] : k \in 0..n}

InitFilter ==
    /\ fnPc = "call"
    /\ fnIn \in SeqsUpTo(SampleRecords, MaxRecords)
    /\ fnOut = <<>>
    /\ ProcIdle

ApplyFilter ==
    /\ fnPc = "call"
    /\ fnOut' = filter_audio_files(fnIn)
    /\ fnPc' = "returned"
    /\ UNCHANGED <<fnIn, procVars>>

NextFilter == ApplyFilter

SpecFilter == InitFilter /\ [][NextFilter]_vars

\* out is exactly the subsequence of inp at the positions S, in input order.
IsSubsequenceAt(out, inp, S) ==
    /\ Len(out) = Cardinality(S)
    /\ \A i \in S : out[Cardinality({j \in S : j <= i})] = inp[i]

\* The suffix as the claim words it: from the last "." of the name, "" if none.
LastDotSuffix(name) ==
    IF \E i \in 1..Len(name) : name[i] = "."
    THEN LET i == CHOOSE i \in 1..Len(name) :
                      name[i] = "." /\ \A j \in (i + 1)..Len(name) : name[j] # "."
         IN  SubSeq(name, i, Len(name))
    ELSE <<>>

\* C9 as claimed: the result is exactly the records whose lower-cased suffix
\* from the last "." of the name is allowed, in input order.
FilterByLastDot ==
    fnPc = "returned" =>
        IsSubsequenceAt(fnOut, fnIn,
            {i \in 1..Len(fnIn) :
                Lower(LastDotSuffix(GetName(fnIn[i]))) \in allowed_extensions})

\* [a, b] bounds the final component of name: a "/"-free stretch that is
\* neither empty nor "." and is followed by nothing but "/" and "." parts.
IsFinalComponent(name, a, b) ==
    /\ a <= b
    /\ \A k \in a..b : name[k] # "/"
    /\ a = 1 \/ name[a - 1] = "/"
    /\ b = Len(name) \/ name[b + 1] = "/"
    /\ SubSeq(name, a, b) # <<".">>
    /\ \A k \in (b + 1)..Len(name) :
          \/ name[k] = "/"
          \/ /\ name[k] = "."
             /\ name[k - 1] = "/"
             /\ k = Len(name) \/ name[k + 1] = "/"

\* The name has an allowed extension in pathlib's sense: its final component
\* has a last "." that is neither its first nor its last character, and the
\* lower-cased text from that "." on is allowed.
HasAllowedExtension(name) ==
    \E a, b \in 1..Len(name) :
        /\ IsFinalComponent(name, a, b)
        /\ \E i \in (a + 1)..(b - 1) :
              /\ name[i] = "."
              /\ \A j \in (i + 1)..b : name[j] # "."
              /\ Lower(SubSeq(name, i, b)) \in allowed_extensions

\* C9 amended: the result is exactly the records whose name has an allowed
\* extension in pathlib's sense, in input order; a record with no name is
\* left out.
FilterByPathSuffix ==
    fnPc = "returned" =>
        IsSubsequenceAt(fnOut, fnIn,
            {i \in 1..Len(fnIn) :
                "name" \in DOMAIN fnIn[i] /\ HasAllowedExtension(fnIn[i].name)})

\* A mixed-case audio record was kept after a dropped one and before a
\* nameless one, and a dot-first name was dropped.
FilterWitness ==
    /\ fnPc = "returned"
    /\ Len(fnIn) = 3
    /\ fnIn[1] = [id |-> "f", name |-> <<".", "m", "p", "3">>]
    /\ fnIn[2] = [id |-> "f", name |-> <<"a", ".", "M", "P", "3">>]
    /\ "name" \notin DOMAIN fnIn[3]
    /\ fnOut = <<fnIn[2]>>

\* ------------------------------ utils/path_utils.py: ensure_directory alone
\* A file system under the root: the paths there are, each a directory
\* ("dir") or a regular file ("file"); a path is a sequence of names.
Names == {"a", "b"}

PathsOfDepth(n) == [1..n -> Names]

AllPaths == UNION {PathsOfDepth(n) : n \in 1..MaxDepth}

Parent(p) == SubSeq(p, 1, Len(p) - 1)

IsDir(fs, p) == p = <<>> \/ (p \in DOMAIN fs /\ fs[p] = "dir")

\* The file systems: whatever is there has a directory as its parent.
FileSystems ==
    {fs \in UNION {[D -> {"dir", "file"}] : D \in SUBSET AllPaths} :
        \A p \in DOMAIN fs : IsDir(fs, Parent(p))}

\* The proper ancestors of p that are not directories, by their lengths.
BadAncestors(fs, p) == {k \in 1..(Len(p) - 1) : ~IsDir(fs, SubSeq(p, 1, k))}

\* os.mkdir(p): the error of the first ancestor that is no directory, or
\* EEXIST, or the directory is made; deniedAt is the depth at which the file
\* system refuses to make a directory (0: nowhere).
OsMkdir(fs, p, deniedAt) ==
    IF BadAncestors(fs, p) # {}
    THEN LET k == CHOOSE k \in BadAncestors(fs, p) : \A j \in BadAncestors(fs, p) : k <= j
         IN  [fs |-> fs,
              err |-> IF SubSeq(p, 1, k) \in DOMAIN fs THEN "ENOTDIR" ELSE "ENOENT"]
    ELSE IF p \in DOMAIN fs THEN [fs |-> fs, err |-> "EEXIST"]
    ELSE IF Len(p) = deniedAt THEN [fs |-> fs, err |-> "EACCES"]
    ELSE [fs |-> (p :> "dir") @@ fs, err |-> "none"]

\* pathlib.Path.mkdir(parents, exist_ok): on FileNotFoundError make the
\* parent with its ancestors and try again; on another OSError return
\* quietly if exist_ok and the path is a directory, and raise otherwise.
RECURSIVE PathMkdir(_, _, _, _, _)
PathMkdir(fs, p, parents, exist_ok, deniedAt) ==
    LET made == OsMkdir(fs, p, deniedAt)
    IN  IF made.err = "none" THEN made
        ELSE IF made.err = "ENOENT"
        THEN IF ~parents \/ p = <<>> THEN made
             ELSE LET up == PathMkdir(fs, Parent(p), TRUE, TRUE, deniedAt)
                  IN  IF up.err # "none" THEN up
                      ELSE PathMkdir(up.fs, p, FALSE, exist_ok, deniedAt)
        ELSE IF exist_ok /\ IsDir(fs, p) THEN [fs |-> fs, err |-> "none"]
        ELSE made

\* Lines 65-70: if not directory_path.exists():
\*                  directory_path.mkdir(parents=True, exist_ok=True)
EnsureDirectoryOnDisk(fs, directory_path, deniedAt) ==
    IF ~Exists(fs, directory_path)
    THEN PathMkdir(fs, directory_path, TRUE, TRUE, deniedAt)
    ELSE [fs |-> fs, err |-> "none"]

InitEnsure ==
    /\ fnPc = "call"
    /\ fnIn \in [fs : FileSystems, path : AllPaths, deniedAt : 0..MaxDepth]
    /\ fnOut = <<>>
    /\ ProcIdle

ApplyEnsure ==
    /\ fnPc = "call"
    /\ fnOut' = EnsureDirectoryOnDisk(fnIn.fs, fnIn.path, fnIn.deniedAt)
    /\ fnPc' = "returned"
    /\ UNCHANGED <<fnIn, procVars>>

NextEnsure == ApplyEnsure

SpecEnsure == InitEnsure /\ [][NextEnsure]_vars

\* C21 as claimed: ensure_directory returns normally only with the path an
\* existing directory, all that was there before still there, and raises
\* when the path is there as a regular file.
EnsureDirectoryOrFailure ==
    fnPc = "returned" =>
        /\ fnOut.err = "none" =>
              /\ IsDir(fnOut.fs, fnIn.path)
              /\ \A p \in DOMAIN fnIn.fs : p \in DOMAIN fnOut.fs /\ fnOut.fs[p] = fnIn.fs[p]
        /\ (fnIn.path \in DOMAIN fnIn.fs /\ fnIn.fs[fnIn.path] = "file") => fnOut.err # "none"

\* The characters the result is claimed not to begin or end with.
WhitespaceAndDot == {" ", "\t", "\n", "."}

\* C22 as claimed: the result of sanitize_filename neither begins nor ends
\* with a space, a tab, a newline or a ".", and it is "unnamed_file" exactly
\* when replacing the unsafe characters and stripping leaves nothing.
SanitizeStripsEnds ==
    fnPc = "returned" =>
        /\ fnOut # <<>>
        /\ fnOut[1] \notin WhitespaceAndDot
        /\ fnOut[Len(fnOut)] \notin WhitespaceAndDot
        /\ (fnOut = UnnamedFile <=> Strip(ReplaceUnsafe(fnIn), StripSet) = <<>>)

\* ------------------------------------------------ destinations of a record
MaxIdParts == 4

MaxNameParts == 2

IdParts == {<<"a">>, <<"/">>, <<".", ".">>, <<".">>}

NameParts == {<<"a">>, <<"/">>, <<".", ".">>, <<" ">>}

RECURSIVE Concat(_)
Concat(ss) == IF ss = <<>> THEN <<>> ELSE Head(ss) \o Concat(Tail(ss))

TextsOf(parts, n) == {Concat(ss) : ss \in UNION {[1..k -> parts] : k \in 0..n}}

\* pathlib keeps neither an empty part nor a "." part of a path.
KeptPart(part) == part # <<>> /\ part # <<".">>

\* The parts of a path relative to download_dir, split at "/".
RECURSIVE PartsFrom(_, _, _, _)
PartsFrom(s, k, part, parts) ==
    LET closed == IF KeptPart(part) THEN Append(parts, part) ELSE parts
    IN  IF k > Len(s) THEN closed
        ELSE IF s[k] = "/" THEN PartsFrom(s, k + 1, <<>>, closed)
        ELSE PartsFrom(s, k + 1, Append(part, s[k]), parts)

PathParts(s) == PartsFrom(s, 1, <<>>, <<>>)

\* Where the file system finds the path: ".." is the parent directory, and
\* up counts the levels above download_dir that the path climbs to.
RECURSIVE ResolveFrom(_, _, _, _)
ResolveFrom(parts, k, up, down) ==
    IF k > Len(parts) THEN [up |-> up, down |-> down]
    ELSE IF parts[k] = <<".", ".">>
         THEN IF down = <<>>
              THEN ResolveFrom(parts, k + 1, up + 1, down)
              ELSE ResolveFrom(parts, k + 1, up, SubSeq(down, 1, Len(down) - 1))
         ELSE ResolveFrom(parts, k + 1, up, Append(down, parts[k]))

Resolve(s) == ResolveFrom(PathParts(s), 1, 0, <<>>)

\* Lines 345 and 371-372 for one record, with the bucket of its createdTime:
\* the directory that ensure_directory makes and the file that open() writes.
Destinations(file) ==
    LET safe_filename == sanitize_filename(file.name)
        dir == DirName(FormatDate(MaxClock), file.id)
    IN  [dir |-> Resolve(dir), file |-> Resolve(FilePath(dir, safe_filename))]

InitPaths ==
    /\ fnPc = "call"
    /\ fnIn \in [id : TextsOf(IdParts, MaxIdParts), name : TextsOf(NameParts, MaxNameParts)]
    /\ fnOut = <<>>
    /\ ProcIdle

ApplyPaths ==
    /\ fnPc = "call"
    /\ fnOut' = Destinations(fnIn)
    /\ fnPc' = "returned"
    /\ UNCHANGED <<fnIn, procVars>>

NextPaths == ApplyPaths

SpecPaths == InitPaths /\ [][NextPaths]_vars

\* C24 as claimed: for every id and every name of a record, the directory
\* made for it is a direct child of download_dir and the file written for it
\* is a direct child of that directory; nothing is made outside download_dir.
PathContainment ==
    fnPc = "returned" =>
        /\ fnOut.dir.up = 0
        /\ Len(fnOut.dir.down) = 1
        /\ fnOut.file.up = 0
        /\ Len(fnOut.file.down) = 2
        /\ SubSeq(fnOut.file.down, 1, 1) = fnOut.dir.down

====
